---- MODULE Spec2Model ----
(***************************************************************************)
(* Model of stock_request/models/stock_request_abstract.py, the abstract   *)
(* model "stock.request.abstract": the location ancestry walk              *)
(* (get_parents), the route applicability computation                      *)
(* (_compute_route_ids), the stored quantity computation                   *)
(* (_compute_product_qty), the three constraint methods and the four       *)
(* onchange methods.                                                       *)
(*                                                                         *)
(* Four specifications share the module:                                   *)
(*   SpecWalk    get_parents, one loop iteration per step, over every      *)
(*               location hierarchy of a bounded size (cyclic ones too);   *)
(*   SpecRoutes  _compute_route_ids over every batch of bounded size;      *)
(*   SpecCommit  create() and write() with the constraint methods, and the *)
(*               write of a product's unit that recomputes product_qty;    *)
(*   SpecForm    a form session: field edits and their onchange methods.   *)
(***************************************************************************)
EXTENDS Integers, Sequences, FiniteSets, TLC

VARIABLES
    location_parent,  \* stock.location.location_id : location -> parent or NONE
    stock_warehouse,  \* the stock.warehouse records that exist
    template_uom_id,  \* product.template.uom_id : product -> its default unit
    walk,             \* get_parents in progress: its locals and position
    batch,            \* the recordset _compute_route_ids is called on
    db,               \* the committed request and the outcome of the last call
    form              \* the record being edited and the last reaction run on it

vars == <<location_parent, stock_warehouse, template_uom_id, walk, batch, db, form>>

\* An empty recordset, or False.
NONE == "none"

----------------------------------------------------------------------------
(* Recordsets are ordered and hold each record once: sequences.            *)

ToSet(s) == {s[i] : i \in 1..Len(s)}

\* recordset | record
RecUnion(s, x) == IF x = NONE \/ x \in ToSet(s) THEN s ELSE Append(s, x)

NoDuplicates(s) == \A i, j \in 1..Len(s) : s[i] = s[j] => i = j

Min(a, b) == IF a <= b THEN a ELSE b

----------------------------------------------------------------------------
(* Master data: the records of the other models the request refers to.     *)
(* The module only reads them.                                             *)

Companies == {"C1", "C2", "C3"}

\* WH0 has no company: the warehouse onchange_company_id's search domain
\* ("company_id", "=", False) looks for.  C3 has no warehouse of its own.
Warehouses == {"WH0", "WH1", "WH2"}

WarehouseOrder == <<"WH0", "WH1", "WH2">>

warehouse_company(w) ==
    CASE w = "WH1" -> "C1"
      [] w = "WH2" -> "C2"
      [] OTHER -> NONE

lot_stock_id(w) ==
    CASE w = "WH0" -> "S0"
      [] w = "WH1" -> "S1"
      [] w = "WH2" -> "S2"
      [] OTHER -> NONE

\* V1 > S1 > B1 belong to WH1, S2 to WH2, S0 to WH0; X belongs to no warehouse.
Locations == {"V1", "S1", "B1", "S2", "S0", "X"}

LocationOrder == <<"V1", "S1", "B1", "S2", "S0", "X">>

LocationTree ==
    [l \in Locations |->
        CASE l = "S1" -> "V1"
          [] l = "B1" -> "S1"
          [] OTHER -> NONE]

\* stock.location.warehouse_id: the warehouse the location lies in, if that
\* warehouse exists.
location_warehouse(l) ==
    LET w == CASE l \in {"V1", "S1", "B1"} -> "WH1"
               [] l = "S2" -> "WH2"
               [] l = "S0" -> "WH0"
               [] OTHER -> NONE
    IN IF w \in stock_warehouse THEN w ELSE NONE

location_company(l) ==
    CASE l \in {"V1", "S1", "B1"} -> "C1"
      [] l = "S2" -> "C2"
      [] OTHER -> NONE

Products == {"P1", "P2"}

\* product.product.company_id
product_company(p) == IF p = "P1" THEN "C1" ELSE NONE

\* product.template.uom_id of each product as the database starts.
InstalledUoms == [p \in Products |-> IF p = "P1" THEN "Unit" ELSE "Kg"]

\* product_id.product_tmpl_id.uom_id
product_uom(p) == IF p \in Products THEN template_uom_id[p] ELSE NONE

product_categ(p) ==
    CASE p = "P1" -> "CatSub"
      [] p = "P2" -> "CatOther"
      [] OTHER -> NONE

\* product.category.parent_id
categ_parent(c) == IF c = "CatSub" THEN "CatAll" ELSE NONE

\* RE has one rule, with no destination; the others have one or two rules.
Routes == {"RA", "RB", "RC", "RD", "RE"}

\* The order a search on stock.route returns them in.
RouteOrder == <<"RA", "RB", "RC", "RD", "RE">>

route_warehouse_ids(r) ==
    CASE r = "RA" -> {"WH1"}
      [] r = "RB" -> {"WH1", "WH2"}
      [] r = "RE" -> {"WH2"}
      [] OTHER -> {}

\* location_dest_id of each of the route's rule_ids
route_rule_dests(r) ==
    CASE r = "RA" -> <<"S1">>
      [] r = "RB" -> <<"B1", "S2">>
      [] r = "RC" -> <<"V1">>
      [] r = "RD" -> <<"X", "S2">>
      [] r = "RE" -> <<NONE>>
      [] OTHER -> <<>>

route_company(r) ==
    CASE r \in {"RA", "RC"} -> "C1"
      [] r = "RE" -> "C2"
      [] OTHER -> NONE

\* product.product.route_ids
product_route_ids(p) ==
    CASE p = "P1" -> <<"RC">>
      [] p = "P2" -> <<"RA">>
      [] OTHER -> <<>>

\* product.category.route_ids
categ_route_ids(c) ==
    CASE c = "CatAll" -> <<"RD">>
      [] c = "CatSub" -> <<"RB">>
      [] OTHER -> <<>>

\* recordset | recordset
RECURSIVE SeqUnion(_, _)
SeqUnion(s, t) ==
    IF t = <<>> THEN s ELSE SeqUnion(RecUnion(s, Head(t)), Tail(t))

\* product.category.total_route_ids: the category's routes and its ancestors'.
RECURSIVE total_route_ids(_)
total_route_ids(c) ==
    IF c = NONE THEN <<>>
    ELSE SeqUnion(categ_route_ids(c), total_route_ids(categ_parent(c)))

\* Units of measure: Unit and Dozen (12 Units) share a category, Kg is alone.
Uoms == {"Unit", "Dozen", "Kg"}

uom_category(u) ==
    CASE u \in {"Unit", "Dozen"} -> "CatUnit"
      [] u = "Kg" -> "CatWeight"
      [] OTHER -> NONE

\* How many reference units of its category one of u is.
uom_ratio(u) == IF u = "Dozen" THEN 12 ELSE 1

----------------------------------------------------------------------------
(* get_parents                                                             *)

\* Bound: how many locations of LocationOrder may be given any parent in
\* SpecWalk (the others are roots).
MaxChain == 4

WalkLocations == {LocationOrder[i] : i \in 1..Min(MaxChain, Len(LocationOrder))}

\* Every hierarchy over WalkLocations, cycles included: nothing in the module
\* keeps stock.location.location_id a tree.
Hierarchies ==
    {p \in [Locations -> WalkLocations \cup {NONE}] :
        \A l \in Locations \ WalkLocations : p[l] = NONE}

\* location = self.location_id ; result = location
get_parents_init(l) ==
    [location |-> l, result |-> IF l = NONE THEN <<>> ELSE <<l>>]

\* while location.location_id:
get_parents_cond(par, w) == w.location # NONE /\ par[w.location] # NONE

\* A loop body that records the location it leaves, not the one it reaches.
get_parents_body_stale(par, w) ==
    [location |-> par[w.location], result |-> RecUnion(w.result, w.location)]

\* location = location.location_id ; result |= location
get_parents_body(par, w) ==
    [location |-> par[w.location],
     result |-> RecUnion(w.result, par[w.location])]

RECURSIVE get_parents_run(_, _)
get_parents_run(par, w) ==
    IF get_parents_cond(par, w)
    THEN get_parents_run(par, get_parents_body(par, w))
    ELSE w.result

\* The whole call, for the callers of get_parents on a tree.
get_parents(par, l) == get_parents_run(par, get_parents_init(l))

WalkIdle == [pc |-> "idle", self_location |-> NONE, location |-> NONE, result |-> <<>>]

\* record.get_parents() is entered.
GetParentsCall(l) ==
    /\ walk.pc \in {"idle", "done"}
    /\ walk' = [pc |-> "while", self_location |-> l,
                location |-> get_parents_init(l).location,
                result |-> get_parents_init(l).result]
    /\ UNCHANGED <<location_parent, stock_warehouse, template_uom_id, batch, db, form>>

\* while location.location_id: the condition holds, enter the body.
GetParentsTest ==
    /\ walk.pc = "while"
    /\ get_parents_cond(location_parent, walk)
    /\ walk' = [walk EXCEPT !.pc = "body"]
    /\ UNCHANGED <<location_parent, stock_warehouse, template_uom_id, batch, db, form>>

\* The loop body, then back to the condition.
GetParentsBody ==
    /\ walk.pc = "body"
    /\ LET w == get_parents_body(location_parent, walk)
       IN walk' = [walk EXCEPT !.pc = "while", !.location = w.location,
                               !.result = w.result]
    /\ UNCHANGED <<location_parent, stock_warehouse, template_uom_id, batch, db, form>>

\* The loop condition is false: return result.
GetParentsReturn ==
    /\ walk.pc = "while"
    /\ ~get_parents_cond(location_parent, walk)
    /\ walk' = [walk EXCEPT !.pc = "done"]
    /\ UNCHANGED <<location_parent, stock_warehouse, template_uom_id, batch, db, form>>

BatchIdle == [pc |-> "idle", records |-> <<>>]
DbIdle == [pc |-> "idle", rec |-> [id |-> NONE]]
FormIdle == [pc |-> "idle"]

InitWalk ==
    /\ location_parent \in Hierarchies
    /\ stock_warehouse = Warehouses
    /\ template_uom_id = InstalledUoms
    /\ walk = WalkIdle
    /\ batch = BatchIdle
    /\ db = DbIdle
    /\ form = FormIdle

NextWalk ==
    \/ \E l \in Locations \cup {NONE} : GetParentsCall(l)
    \/ GetParentsTest
    \/ GetParentsBody
    \/ GetParentsReturn

\* The method runs to its end once called: the interpreter keeps executing it.
SpecWalk ==
    InitWalk /\ [][NextWalk]_vars /\ WF_vars(GetParentsTest \/ GetParentsBody \/ GetParentsReturn)

----------------------------------------------------------------------------
(* Properties of get_parents                                               *)

\* The k-th parent of l in hierarchy par (NONE once the chain has ended).
RECURSIVE NthParent(_, _, _)
NthParent(par, l, k) ==
    IF k = 0 \/ l = NONE THEN l ELSE NthParent(par, par[l], k - 1)

\* The chain from l ends: some k-th parent is NONE.
Acyclic(par, l) == \E k \in 0..Cardinality(Locations) : NthParent(par, l, k) = NONE

\* l and its transitive parents, defined without the walk.
Ancestors(par, l) ==
    {NthParent(par, l, k) : k \in 0..Cardinality(Locations)} \ {NONE}

\* C6: on a location whose parent chain has no cycle, get_parents stops and
\* returns exactly the location and its transitive parents, each once.  While
\* the loop runs the result is duplicate-free, holds only ancestors and has
\* grown with every iteration so far (so the loop cannot run longer than the
\* chain); at the return it holds all of them.
C6_GetParentsExact ==
    (walk.pc \in {"while", "body", "done"} /\ Acyclic(location_parent, walk.self_location))
    => /\ NoDuplicates(walk.result)
       /\ ToSet(walk.result) \subseteq Ancestors(location_parent, walk.self_location)
       /\ walk.self_location # NONE =>
            /\ walk.result[1] = walk.self_location
            /\ walk.result[Len(walk.result)] = walk.location
       /\ walk.pc = "done" =>
            ToSet(walk.result) = Ancestors(location_parent, walk.self_location)

\* C6 witness.  Scenario C: a chain of three, walked to its end.
C6_Witness ==
    /\ walk.pc = "done"
    /\ walk.self_location = "B1"
    /\ location_parent["B1"] = "S1"
    /\ location_parent["S1"] = "V1"
    /\ location_parent["V1"] = NONE
    /\ walk.result = <<"B1", "S1", "V1">>

\* C10: whatever the hierarchy, a started walk ends, finished or in an error.
C10_WalkAlwaysEnds ==
    (walk.pc \in {"while", "body"}) ~> (walk.pc \in {"done", "error"})

----------------------------------------------------------------------------
(* _compute_route_ids                                                      *)

\* Bound: the largest recordset _compute_route_ids is called on in SpecRoutes.
MaxBatch == 2

\* route_obj.search([("warehouse_ids", "in", self.mapped("warehouse_id").ids)])
search_routes(records) ==
    LET whs == {records[i].warehouse_id : i \in 1..Len(records)} \ {NONE}
    IN SelectSeq(RouteOrder, LAMBDA r : route_warehouse_ids(r) \cap whs # {})

\* The grouping loop: warehouse -> the found routes that list it.
routes_by_warehouse(routes) ==
    [w \in Warehouses |->
        SelectSeq(routes, LAMBDA r : w \in route_warehouse_ids(r))]

\* any(p.location_dest_id.id in parents for p in r.rule_ids)
rule_reaches(r, parents) ==
    \E i \in 1..Len(route_rule_dests(r)) :
        /\ route_rule_dests(r)[i] # NONE
        /\ route_rule_dests(r)[i] \in ToSet(parents)

\* A filter that looks at the request's location only, not at its parents.
record_route_ids_flat(record, by_wh, par) ==
    LET from_product ==
            IF record.product_id # NONE
            THEN SeqUnion(product_route_ids(record.product_id),
                          total_route_ids(product_categ(record.product_id)))
            ELSE <<>>
        routes ==
            IF record.warehouse_id # NONE /\ by_wh[record.warehouse_id] # <<>>
            THEN SeqUnion(from_product, by_wh[record.warehouse_id])
            ELSE from_product
        parents == get_parents_init(record.location_id).result
    IN SelectSeq(routes, LAMBDA r : rule_reaches(r, parents))

\* The body of "for record in self".
record_route_ids(record, by_wh, par) ==
    LET from_product ==
            IF record.product_id # NONE
            THEN SeqUnion(product_route_ids(record.product_id),
                          total_route_ids(product_categ(record.product_id)))
            ELSE <<>>
        routes ==
            IF record.warehouse_id # NONE /\ by_wh[record.warehouse_id] # <<>>
            THEN SeqUnion(from_product, by_wh[record.warehouse_id])
            ELSE from_product
        parents == get_parents(par, record.location_id)
    IN SelectSeq(routes, LAMBDA r : rule_reaches(r, parents))

\* The whole method on a recordset: route_ids of every record is assigned.
_compute_route_ids(records, par) ==
    LET by_wh == routes_by_warehouse(search_routes(records))
    IN [i \in 1..Len(records) |->
          [records[i] EXCEPT !.route_ids = record_route_ids(records[i], by_wh, par)]]

\* The locations of the requests in SpecRoutes.  S0 is left out: like X it
\* has no parent and, unlike X, no rule delivers to it, which the empty
\* location covers.
RouteLocations == Locations \ {"S0"}

\* What route_ids depends on, per request.
RouteInputs ==
    [product_id : Products \cup {NONE},
     warehouse_id : Warehouses \cup {NONE},
     location_id : RouteLocations \cup {NONE},
     route_ids : {<<>>}]

\* self grows by one request (the recordset the caller builds).
AddToBatch(record) ==
    /\ batch.pc = "todo"
    /\ Len(batch.records) < MaxBatch
    /\ batch' = [batch EXCEPT !.records = Append(@, record)]
    /\ UNCHANGED <<location_parent, stock_warehouse, template_uom_id, walk, db, form>>

ComputeRouteIds ==
    /\ batch.pc = "todo"
    /\ batch.records # <<>>
    /\ batch' = [pc |-> "done",
                 records |-> _compute_route_ids(batch.records, location_parent)]
    /\ UNCHANGED <<location_parent, stock_warehouse, template_uom_id, walk, db, form>>

InitRoutes ==
    /\ location_parent = LocationTree
    /\ stock_warehouse = Warehouses
    /\ template_uom_id = InstalledUoms
    /\ walk = WalkIdle
    /\ batch = [pc |-> "todo", records |-> <<>>]
    /\ db = DbIdle
    /\ form = FormIdle

NextRoutes ==
    \/ \E record \in RouteInputs : AddToBatch(record)
    \/ ComputeRouteIds

SpecRoutes == InitRoutes /\ [][NextRoutes]_vars

\* The routes the request can use, stated on sets: attached to its product, to
\* the product's category or one of that category's ancestors, or listing its
\* warehouse; and with a rule that delivers to the location or one of its
\* parents.
RECURSIVE CategChain(_)
CategChain(c) == IF c = NONE THEN {} ELSE {c} \cup CategChain(categ_parent(c))

ApplicableRoutes(record) ==
    LET ancestors == Ancestors(LocationTree, record.location_id)
        categs == CategChain(product_categ(record.product_id))
    IN {r \in Routes :
          /\ \/ /\ record.product_id # NONE
                /\ \/ r \in ToSet(product_route_ids(record.product_id))
                   \/ \E c \in categs : r \in ToSet(categ_route_ids(c))
             \/ /\ record.warehouse_id # NONE
                /\ record.warehouse_id \in route_warehouse_ids(r)
          /\ \E i \in 1..Len(route_rule_dests(r)) :
                route_rule_dests(r)[i] \in ancestors}

\* record alone in a recordset, before the computation
Alone(record) == <<[record EXCEPT !.route_ids = <<>>]>>

\* C7: after the recomputation every request of the batch holds exactly its
\* applicable routes, each once, and holds what it would hold had it been
\* recomputed alone.
C7_RouteIdsExact ==
    batch.pc = "done" =>
        \A i \in 1..Len(batch.records) :
            /\ ToSet(batch.records[i].route_ids) = ApplicableRoutes(batch.records[i])
            /\ NoDuplicates(batch.records[i].route_ids)
            /\ batch.records[i].route_ids
                 = _compute_route_ids(Alone(batch.records[i]), LocationTree)[1].route_ids

\* C7 witness.  A batch of two requests in different warehouses; the first, at the bottom
\* of the chain B1 > S1 > V1, gets a product route (rule to V1), a category
\* route (rule to B1) and a warehouse route (rule to S1), the second gets none.
C7_Witness ==
    /\ batch.pc = "done"
    /\ Len(batch.records) = 2
    /\ batch.records[1].product_id = "P1"
    /\ batch.records[1].warehouse_id = "WH1"
    /\ batch.records[1].location_id = "B1"
    /\ ToSet(batch.records[1].route_ids) = {"RA", "RB", "RC"}
    /\ batch.records[2].product_id = NONE
    /\ batch.records[2].warehouse_id = "WH2"
    /\ batch.records[2].location_id = "X"
    /\ batch.records[2].route_ids = <<>>

----------------------------------------------------------------------------
(* create() and write(): the stored computed field and the constraints     *)

\* Bounds: the largest quantity a caller passes (the smallest is -1), and the
\* largest number of fields one write() sets.
MaxQty == 1
MaxWriteFields == 2

Quantities == -1..MaxQty

\* The fields a caller sets.  product_qty is computed and read-only.
Fields ==
    {"company_id", "product_id", "warehouse_id", "location_id", "route_id",
     "product_uom_id", "product_uom_qty"}

\* required=True on every field but route_id: only route_id can be empty.
FieldValues(f) ==
    CASE f = "company_id" -> Companies
      [] f = "product_id" -> Products
      [] f = "warehouse_id" -> Warehouses
      [] f = "location_id" -> Locations
      [] f = "route_id" -> Routes \cup {NONE}
      [] f = "product_uom_id" -> Uoms
      [] f = "product_uom_qty" -> Quantities

\* vals: the fields a call sets and the value it gives each (the fields it does
\* not set carry a placeholder that is never read).
ValsOver(F) ==
    [fields : {F},
     company_id : IF "company_id" \in F THEN FieldValues("company_id") ELSE {NONE},
     product_id : IF "product_id" \in F THEN FieldValues("product_id") ELSE {NONE},
     warehouse_id : IF "warehouse_id" \in F THEN FieldValues("warehouse_id") ELSE {NONE},
     location_id : IF "location_id" \in F THEN FieldValues("location_id") ELSE {NONE},
     route_id : IF "route_id" \in F THEN FieldValues("route_id") ELSE {NONE},
     product_uom_id : IF "product_uom_id" \in F THEN FieldValues("product_uom_id") ELSE {NONE},
     product_uom_qty : IF "product_uom_qty" \in F THEN FieldValues("product_uom_qty") ELSE {0}]

\* The vals of a write(): some fields, at most MaxWriteFields of them.
WriteVals ==
    UNION {ValsOver(F) :
             F \in {S \in SUBSET Fields : Cardinality(S) \in 1..MaxWriteFields}}

\* The vals of a create(): a value for every field (the required ones cannot
\* be left out).
CreateVals == ValsOver(Fields)

NoVals == [fields |-> {}]

NoRec == [id |-> NONE]

\* A new record before its vals are assigned.
NewRecord ==
    [id |-> "REQ", company_id |-> NONE, product_id |-> NONE, warehouse_id |-> NONE,
     location_id |-> NONE, route_id |-> NONE, product_uom_id |-> NONE,
     product_uom_qty |-> 0, product_qty |-> 0]

Assign(rec, vals) ==
    [f \in DOMAIN rec |-> IF f \in vals.fields THEN vals[f] ELSE rec[f]]

\* float_round(..., rounding_method="UP"): away from zero, to whole units.
RoundUpDiv(n, d) ==
    IF n >= 0 THEN (n + d - 1) \div d ELSE 0 - ((0 - n + d - 1) \div d)

\* uom._compute_quantity(qty, to_unit): through the reference unit, rounded up.
UomConvert(qty, from, to) ==
    IF from = NONE \/ to = NONE THEN qty
    ELSE RoundUpDiv(qty * uom_ratio(from), uom_ratio(to))

CONVERSION_ERROR == "ConversionError"

\* What the conversion can give.  Within a category it is the converted
\* quantity.  Across categories the conversion is outside its contract: it may
\* refuse, or return a number.
ConvertOutcomes(qty, from, to) ==
    IF uom_category(from) = uom_category(to)
    THEN {[raised |-> FALSE, qty |-> UomConvert(qty, from, to)]}
    ELSE {[raised |-> FALSE, qty |-> UomConvert(qty, from, to)],
          [raised |-> TRUE, qty |-> 0]}

\* @api.depends of _compute_product_qty.  The last name is a path through the
\* product to its template: no vals of the request can hold it, a write of
\* uom_id on the template triggers it.
TEMPLATE_UOM == "product_id.product_tmpl_id.uom_id"

ProductQtyDepends == {"product_id", "product_uom_id", "product_uom_qty", TEMPLATE_UOM}

\* _compute_product_qty for one record: the values product_qty can take,
\* uoms being product.template.uom_id as the computation reads it.
_compute_product_qty(rec, uoms) ==
    ConvertOutcomes(rec.product_uom_qty, rec.product_uom_id,
                    IF rec.product_id \in Products THEN uoms[rec.product_id] ELSE NONE)

OK == "ok"

\* @api.constrains of _check_company_constrains
CompanyConstrains ==
    {"company_id", "product_id", "warehouse_id", "location_id", "route_id"}

\* A warehouse check that, like the others, passes a warehouse with no company.
_check_company_constrains_lenient(rec) ==
    IF /\ product_company(rec.product_id) # NONE
       /\ product_company(rec.product_id) # rec.company_id
    THEN "CompanyMismatch.product"
    ELSE IF /\ location_company(rec.location_id) # NONE
            /\ location_company(rec.location_id) # rec.company_id
    THEN "CompanyMismatch.location"
    ELSE IF /\ warehouse_company(rec.warehouse_id) # NONE
            /\ warehouse_company(rec.warehouse_id) # rec.company_id
    THEN "CompanyMismatch.warehouse"
    ELSE IF /\ rec.route_id # NONE
            /\ route_company(rec.route_id) # NONE
            /\ route_company(rec.route_id) # rec.company_id
    THEN "CompanyMismatch.route"
    ELSE OK

\* The first ValidationError the method raises, or OK.
_check_company_constrains(rec) ==
    IF /\ product_company(rec.product_id) # NONE
       /\ product_company(rec.product_id) # rec.company_id
    THEN "CompanyMismatch.product"
    ELSE IF /\ location_company(rec.location_id) # NONE
            /\ location_company(rec.location_id) # rec.company_id
    THEN "CompanyMismatch.location"
    ELSE IF warehouse_company(rec.warehouse_id) # rec.company_id
    THEN "CompanyMismatch.warehouse"
    ELSE IF /\ rec.route_id # NONE
            /\ route_company(rec.route_id) # NONE
            /\ route_company(rec.route_id) # rec.company_id
    THEN "CompanyMismatch.route"
    ELSE OK

CompanyMismatchErrors ==
    {"CompanyMismatch.product", "CompanyMismatch.location",
     "CompanyMismatch.warehouse", "CompanyMismatch.route"}

\* @api.constrains of _check_product_uom
ProductUomConstrains == {"product_id"}

_check_product_uom(rec) ==
    IF uom_category(product_uom(rec.product_id)) # uom_category(rec.product_uom_id)
    THEN "UomCategoryMismatch"
    ELSE OK

\* A check that lets a zero quantity through.
_check_qty_negative_only(rec) ==
    IF rec.product_qty < 0 THEN "NonPositiveQuantity" ELSE OK

\* @api.constrains("product_qty"): run when product_qty has been recomputed.
_check_qty(rec) ==
    IF rec.product_qty <= 0 THEN "NonPositiveQuantity" ELSE OK

\* The constraint methods the written fields trigger, in the order the ORM
\* runs them; the first error is the one raised.
_validate_fields(rec, fnames) ==
    LET company == IF fnames \cap CompanyConstrains # {}
                   THEN _check_company_constrains(rec) ELSE OK
        uom == IF fnames \cap ProductUomConstrains # {}
               THEN _check_product_uom(rec) ELSE OK
    IN IF company # OK THEN company ELSE uom

\* What a create() or write() that leaves rec with the given vals assigned does:
\* the constraints of the written fields, then, when a field product_qty
\* depends on was written, its recomputation and _check_qty.  qty is one of
\* the outcomes of the recomputation.
Outcome(rec, fnames, qty) ==
    LET first == _validate_fields(rec, fnames)
        recompute == fnames \cap ProductQtyDepends # {}
        computed == [rec EXCEPT !.product_qty = qty.qty]
    IN IF first # OK
       THEN [error |-> first, computed |-> FALSE, attempt |-> rec]
       ELSE IF ~recompute
       THEN [error |-> OK, computed |-> FALSE, attempt |-> rec]
       ELSE IF qty.raised
       THEN [error |-> CONVERSION_ERROR, computed |-> FALSE, attempt |-> rec]
       ELSE [error |-> _check_qty(computed), computed |-> TRUE, attempt |-> computed]

\* The call as a whole: the record is replaced when nothing was raised and is
\* left as it was (the transaction is rolled back) otherwise.
Call(op, vals, out) ==
    db' = [pc |-> "called", op |-> op, vals |-> vals, prev |-> db.rec,
           rec |-> IF out.error = OK THEN out.attempt ELSE db.rec,
           attempt |-> out.attempt, computed |-> out.computed,
           error |-> out.error]

\* create(vals), for every vals a caller can pass.
Create ==
    /\ db.pc = "ready"
    /\ db.rec = NoRec
    /\ \E vals \in CreateVals :
          LET rec == Assign(NewRecord, vals)
          IN \E qty \in _compute_product_qty(rec, template_uom_id) :
                Call("create", vals, Outcome(rec, vals.fields, qty))
    /\ UNCHANGED <<location_parent, stock_warehouse, template_uom_id, walk, batch, form>>

\* write(vals), for every vals a caller can pass.
Write ==
    /\ db.pc = "ready"
    /\ db.rec # NoRec
    /\ \E vals \in WriteVals :
          LET rec == Assign(db.rec, vals)
          IN \E qty \in _compute_product_qty(rec, template_uom_id) :
                Call("write", vals, Outcome(rec, vals.fields, qty))
    /\ UNCHANGED <<location_parent, stock_warehouse, template_uom_id, walk, batch, form>>

\* The products whose template is rewritten: P1, whose unit has another unit
\* in its category (Dozen) and one outside it (Kg).
TemplateProducts == {"P1"}

\* write({"uom_id": u}) on the template of a product.  product_qty of the
\* request of that product is recomputed with the new unit, and the constraint
\* of the recomputed field, _check_qty, runs on it; when that raises, the
\* transaction is rolled back and the template keeps its unit.  No field of
\* the request is written, so no other constraint of the request runs.
WriteTemplateUom ==
    /\ db.pc = "ready"
    /\ \E p \in TemplateProducts, u \in Uoms :
          LET uoms == [template_uom_id EXCEPT ![p] = u]
              vals == [fields |-> {TEMPLATE_UOM}, product_id |-> p, uom_id |-> u]
          IN IF db.rec # NoRec /\ db.rec.product_id = p
             THEN \E qty \in _compute_product_qty(db.rec, uoms) :
                     LET out == Outcome(db.rec, vals.fields, qty)
                     IN /\ Call("write_template", vals, out)
                        /\ template_uom_id' = IF out.error = OK THEN uoms
                                              ELSE template_uom_id
             ELSE /\ template_uom_id' = uoms
                  /\ UNCHANGED db
    /\ UNCHANGED <<location_parent, stock_warehouse, walk, batch, form>>

\* Between two calls: the committed record, and nothing of the last call.
Ready(rec) ==
    [pc |-> "ready", op |-> NONE, vals |-> NoVals, prev |-> rec, rec |-> rec,
     attempt |-> rec, computed |-> FALSE, error |-> OK]

\* The call has returned or raised; the caller goes on.
Return ==
    /\ db.pc = "called"
    /\ db' = Ready(db.rec)
    /\ UNCHANGED <<location_parent, stock_warehouse, template_uom_id, walk, batch, form>>

InitCommit ==
    /\ location_parent = LocationTree
    /\ stock_warehouse = Warehouses
    /\ template_uom_id = InstalledUoms
    /\ walk = WalkIdle
    /\ batch = BatchIdle
    /\ db = Ready(NoRec)
    /\ form = FormIdle

NextCommit ==
    \/ Create
    \/ Write
    \/ WriteTemplateUom
    \/ Return

SpecCommit == InitCommit /\ [][NextCommit]_vars

\* company_id, product_id/location_id/route_id company, and the warehouse's:
\* the rule of the claim, stated on the record.
CompanyCoherent(rec) ==
    /\ warehouse_company(rec.warehouse_id) = rec.company_id
    /\ product_company(rec.product_id) \in {NONE, rec.company_id}
    /\ location_company(rec.location_id) \in {NONE, rec.company_id}
    /\ route_company(rec.route_id) \in {NONE, rec.company_id}

UomCoherent(rec) ==
    uom_category(rec.product_uom_id) = uom_category(product_uom(rec.product_id))

\* C1: a create, or a write that sets company, product, warehouse, location or
\* route, whose resulting record breaks the company rule (the warehouse's
\* company differs from the request's, an empty one included; or the
\* product's, location's or route's company is set and differs) is rejected
\* with a company-mismatch error and the record stays as it was; hence the
\* committed request always satisfies the rule.
C1_CompanyCoherence ==
    /\ db.rec # NoRec => CompanyCoherent(db.rec)
    /\ ( /\ db.pc = "called"
         /\ db.op = "create" \/ db.vals.fields \cap CompanyConstrains # {}
         /\ ~CompanyCoherent(db.attempt) )
       => /\ db.error \in CompanyMismatchErrors
          /\ db.rec = db.prev

\* C1 witness.  A write that moves a committed request to the warehouse with no company is
\* rejected.
C1_Witness ==
    /\ db.pc = "called"
    /\ db.op = "write"
    /\ db.vals.fields = {"warehouse_id"}
    /\ db.attempt.warehouse_id = "WH0"
    /\ db.error = "CompanyMismatch.warehouse"
    /\ db.prev # NoRec
    /\ db.rec = db.prev

\* C2: with the products' units as installed (so that only create and write
\* on the request decide it), the committed request's unit of measure is
\* always in the category of its product's unit, and a create or write whose
\* resulting record breaks this (and breaks no company rule) is rejected with
\* the UoM-category error.
C2_UomCategoryCoherence ==
    template_uom_id = InstalledUoms =>
        /\ db.rec # NoRec => UomCoherent(db.rec)
        /\ ( /\ db.pc = "called"
             /\ db.op \in {"create", "write"}
             /\ ~UomCoherent(db.attempt)
             /\ CompanyCoherent(db.attempt) )
           => /\ db.error = "UomCategoryMismatch"
              /\ db.rec = db.prev

\* C3: the committed request's product_qty is always > 0.  A call that
\* recomputes product_qty to zero or less (a write of the unit of the
\* product's template included) is rejected with the non-positive
\* quantity error, and a create, or a write of quantity, unit or product, that
\* leaves a requested quantity of zero or less is rejected; either way the
\* record stays as it was.
C3_PositiveQuantity ==
    /\ db.rec # NoRec => db.rec.product_qty > 0
    /\ (db.pc = "called" /\ db.computed /\ db.attempt.product_qty <= 0)
       => /\ db.error = "NonPositiveQuantity"
          /\ db.rec = db.prev
    /\ ( /\ db.pc = "called"
         /\ db.op = "create" \/ db.vals.fields \cap ProductQtyDepends # {}
         /\ db.attempt.product_uom_qty <= 0 )
       => /\ db.error # OK
          /\ db.rec = db.prev

\* C3 witness.  Scenario F on a committed request: writing a quantity of -1 is rejected.
C3_Witness ==
    /\ db.pc = "called"
    /\ db.op = "write"
    /\ db.vals.fields = {"product_uom_qty"}
    /\ db.attempt.product_uom_qty = -1
    /\ db.computed
    /\ db.error = "NonPositiveQuantity"
    /\ db.prev # NoRec
    /\ db.rec = db.prev
    /\ db.rec.product_qty > 0

----------------------------------------------------------------------------
(* The form: field edits and the onchange methods                          *)

\* The models that inherit the abstract model: stock.request, whose records
\* may belong to an order (order_id), and any other.
ModelNames == {"stock.request", "stock.request.other"}

Orders == {"ORDER"}

\* The warehouse reaction with the order test left out.
onchange_warehouse_id_unguarded(r) ==
    IF r.warehouse_id # NONE
    THEN LET loc_wh == location_warehouse(r.location_id)
             r1 == IF r.warehouse_id # loc_wh
                   THEN [r EXCEPT !.location_id = lot_stock_id(r.warehouse_id)]
                   ELSE r
         IN IF warehouse_company(r1.warehouse_id) # r1.company_id
            THEN [r1 EXCEPT !.company_id = warehouse_company(r1.warehouse_id)]
            ELSE r1
    ELSE r

\* The warehouse reaction resetting the location whatever warehouse owns it.
onchange_warehouse_id_reset(r) ==
    IF r._name = "stock.request" /\ r.order_id # NONE
    THEN r
    ELSE IF r.warehouse_id # NONE
    THEN LET r1 == [r EXCEPT !.location_id = lot_stock_id(r.warehouse_id)]
         IN IF warehouse_company(r1.warehouse_id) # r1.company_id
            THEN [r1 EXCEPT !.company_id = warehouse_company(r1.warehouse_id)]
            ELSE r1
    ELSE r

\* onchange_warehouse_id: the record after the method.
onchange_warehouse_id(r) ==
    IF r._name = "stock.request" /\ r.order_id # NONE
    THEN r
    ELSE IF r.warehouse_id # NONE
    THEN LET loc_wh == location_warehouse(r.location_id)
             r1 == IF r.warehouse_id # loc_wh
                   THEN [r EXCEPT !.location_id = lot_stock_id(r.warehouse_id)]
                   ELSE r
         IN IF warehouse_company(r1.warehouse_id) # r1.company_id
            THEN [r1 EXCEPT !.company_id = warehouse_company(r1.warehouse_id)]
            ELSE r1
    ELSE r

\* onchange_location_id.  The context key no_change_childs it passes on is
\* read nowhere in onchange_warehouse_id.
onchange_location_id(r) ==
    IF r.location_id # NONE
    THEN LET loc_wh == location_warehouse(r.location_id)
         IN IF loc_wh # NONE /\ r.warehouse_id # loc_wh
            THEN onchange_warehouse_id([r EXCEPT !.warehouse_id = loc_wh])
            ELSE r
    ELSE r

\* search(["|", ("company_id", "=", False), ("company_id", "=", company)],
\* limit=1): the warehouses it can return (which one comes first is the
\* warehouse model's order), NONE when none matches.
search_warehouse(whs, company, with_no_company) ==
    LET found == {w \in whs :
                     \/ warehouse_company(w) = company
                     \/ with_no_company /\ warehouse_company(w) = NONE}
    IN IF found = {} THEN {NONE} ELSE found

\* onchange_company_id, found being what the search returned.
onchange_company_id(r, found) ==
    IF /\ r.company_id # NONE
       /\ \/ r.warehouse_id = NONE
          \/ warehouse_company(r.warehouse_id) # r.company_id
    THEN onchange_warehouse_id([r EXCEPT !.warehouse_id = found])
    ELSE r

onchange_product_id(r) ==
    IF r.product_id # NONE
    THEN [r EXCEPT !.product_uom_id = product_uom(r.product_id)]
    ELSE r

\* What super().default_get(fields) returns, keys being the names it holds.
\* A field is taken from the context key default_<field> when the context
\* holds it, and from the field's default otherwise: company_id always has a
\* value (the context's, or env.company), product_uom_id too (the context
\* key product_uom_id, False without it); warehouse_id, location_id,
\* product_id and route_id have no default and are held only when the
\* context gives them.
ContextDefaults == {"warehouse_id", "location_id", "product_id", "route_id"}

SuperDefaults(name, order) ==
    {res \in [keys : {{"company_id", "product_uom_id"} \cup K : K \in SUBSET ContextDefaults},
              _name : {name}, order_id : {order},
              company_id : Companies \cup {NONE},
              warehouse_id : stock_warehouse \cup {NONE},
              location_id : Locations \cup {NONE},
              product_id : Products \cup {NONE},
              product_uom_id : Uoms \cup {NONE},
              route_id : Routes \cup {NONE}] :
        \A f \in ContextDefaults : f \notin res.keys => res[f] = NONE}

\* default_get: res is what super().default_get returned, found what the
\* search for a warehouse of the company returns when it is done.
default_get(res, found) ==
    LET warehouse == IF "warehouse_id" \notin res.keys /\ res.company_id # NONE
                     THEN found
                     ELSE NONE
    IN IF warehouse # NONE
       THEN [res EXCEPT !.keys = @ \cup {"warehouse_id", "location_id"},
                        !.warehouse_id = warehouse,
                        !.location_id = lot_stock_id(warehouse)]
       ELSE res

\* The new record the form opens with the defaults.
NewForm(res) == [f \in DOMAIN res \ {"keys"} |-> res[f]]

\* route_ids of the record in the form (the computed field, read when shown).
route_ids(r) ==
    _compute_route_ids(
        <<[product_id |-> r.product_id, warehouse_id |-> r.warehouse_id,
           location_id |-> r.location_id, route_ids |-> <<>>]>>,
        location_parent)[1].route_ids

\* A route field that offers every route.
route_id_domain_any(r) == Routes

\* domain="[('id', 'in', route_ids)]" of route_id: what the form offers.
route_id_domain(r) == ToSet(route_ids(r))

\* An edit: the user sets a field, the field's onchange method runs.  pre is
\* the record with the field set, before the method.
Edited(field, pre, post) ==
    form' = [pc |-> "changed", field |-> field, pre |-> pre, rec |-> post]

EditWarehouse ==
    /\ form.pc = "editing"
    /\ \E w \in stock_warehouse \cup {NONE} :
          LET pre == [form.rec EXCEPT !.warehouse_id = w]
          IN Edited("warehouse_id", pre, onchange_warehouse_id(pre))
    /\ UNCHANGED <<location_parent, stock_warehouse, template_uom_id, walk, batch, db>>

EditLocation ==
    /\ form.pc = "editing"
    /\ \E l \in Locations \cup {NONE} :
          LET pre == [form.rec EXCEPT !.location_id = l]
          IN Edited("location_id", pre, onchange_location_id(pre))
    /\ UNCHANGED <<location_parent, stock_warehouse, template_uom_id, walk, batch, db>>

EditCompany ==
    /\ form.pc = "editing"
    /\ \E c \in Companies \cup {NONE} :
          LET pre == [form.rec EXCEPT !.company_id = c]
          IN \E found \in search_warehouse(stock_warehouse, c, TRUE) :
                Edited("company_id", pre, onchange_company_id(pre, found))
    /\ UNCHANGED <<location_parent, stock_warehouse, template_uom_id, walk, batch, db>>

EditProduct ==
    /\ form.pc = "editing"
    /\ \E p \in Products \cup {NONE} :
          LET pre == [form.rec EXCEPT !.product_id = p]
          IN Edited("product_id", pre, onchange_product_id(pre))
    /\ UNCHANGED <<location_parent, stock_warehouse, template_uom_id, walk, batch, db>>

\* route_id has no onchange method.
EditRoute ==
    /\ form.pc = "editing"
    /\ \E r \in route_id_domain(form.rec) \cup {NONE} :
          LET pre == [form.rec EXCEPT !.route_id = r]
          IN Edited("route_id", pre, pre)
    /\ UNCHANGED <<location_parent, stock_warehouse, template_uom_id, walk, batch, db>>

\* The form shows the result; the user may edit again.
Editing(rec) == [pc |-> "editing", field |-> NONE, pre |-> rec, rec |-> rec]

Shown ==
    /\ form.pc = "changed"
    /\ form' = Editing(form.rec)
    /\ UNCHANGED <<location_parent, stock_warehouse, template_uom_id, walk, batch, db>>

\* A new record is opened in the form, in a database with or without the
\* warehouse that has no company.
InitForm ==
    /\ location_parent = LocationTree
    /\ stock_warehouse \in {Warehouses, Warehouses \ {"WH0"}}
    /\ template_uom_id = InstalledUoms
    /\ walk = WalkIdle
    /\ batch = BatchIdle
    /\ db = DbIdle
    /\ \E name \in ModelNames, order \in Orders \cup {NONE} :
          /\ name = "stock.request" \/ order = NONE
          /\ \E res \in SuperDefaults(name, order) :
                \E found \in search_warehouse(stock_warehouse, res.company_id, FALSE) :
                   form = Editing(NewForm(default_get(res, found)))

NextForm ==
    \/ EditWarehouse
    \/ EditLocation
    \/ EditCompany
    \/ EditProduct
    \/ EditRoute
    \/ Shown

SpecForm == InitForm /\ [][NextForm]_vars

----------------------------------------------------------------------------
(* Properties of the form                                                  *)

OrderDerived(r) == r._name = "stock.request" /\ r.order_id # NONE

\* C4: after the warehouse was set to a warehouse W and its reaction has run:
\* a stock.request with an order is as it was; otherwise the location is W's
\* stock location when the location's warehouse was not W and is unchanged
\* when it was, the company is W's company when that differed from the
\* request's and is unchanged when it did not, and nothing else has changed.
C4_WarehouseReaction ==
    (form.pc = "changed" /\ form.field = "warehouse_id" /\ form.pre.warehouse_id # NONE)
    => LET W == form.pre.warehouse_id
       IN IF OrderDerived(form.pre)
          THEN form.rec = form.pre
          ELSE /\ form.rec.location_id =
                    IF location_warehouse(form.pre.location_id) # W
                    THEN lot_stock_id(W) ELSE form.pre.location_id
               /\ form.rec.company_id =
                    IF warehouse_company(W) # form.pre.company_id
                    THEN warehouse_company(W) ELSE form.pre.company_id
               /\ form.rec = [form.pre EXCEPT !.location_id = form.rec.location_id,
                                              !.company_id = form.rec.company_id]

\* C4 witness.  Scenario E: the warehouse goes from WH1 to WH2 with the location in WH1,
\* on a request with no order; the location becomes WH2's stock location and
\* the company WH2's.
C4_Witness ==
    /\ form.pc = "changed"
    /\ form.field = "warehouse_id"
    /\ ~OrderDerived(form.pre)
    /\ form.pre.warehouse_id = "WH2"
    /\ form.pre.location_id = "B1"
    /\ form.pre.company_id = "C1"
    /\ form.rec.location_id = "S2"
    /\ form.rec.company_id = "C2"

\* C5 as stated: whenever the route is set it is one of route_ids, whatever
\* was edited since it was chosen.
C5_RouteAlwaysApplicable ==
    form.pc \in {"editing", "changed"} /\ form.rec.route_id # NONE
    => form.rec.route_id \in ToSet(route_ids(form.rec))

\* C5 amended: a route chosen in the form is one of route_ids at the moment
\* it is chosen.
C5_RouteApplicableWhenChosen ==
    (form.pc = "changed" /\ form.field = "route_id" /\ form.rec.route_id # NONE)
    => form.rec.route_id \in ToSet(route_ids(form.rec))

\* C5 witness.  A route is chosen, and it is applicable only because of the parents of the
\* location: RC delivers to V1, the request is at B1.
C5_Witness ==
    /\ form.pc = "changed"
    /\ form.field = "route_id"
    /\ form.rec.route_id = "RC"
    /\ form.rec.location_id = "B1"
    /\ form.pre.route_id = "RC"

\* The case of C8: the location was set to one whose warehouse is set and is
\* not the request's.
LocationMovesWarehouse ==
    /\ form.pc = "changed"
    /\ form.field = "location_id"
    /\ form.pre.location_id # NONE
    /\ location_warehouse(form.pre.location_id) # NONE
    /\ location_warehouse(form.pre.location_id) # form.pre.warehouse_id

\* C8 as stated: the request ends in the location's warehouse, in that
\* warehouse's company, at the location that was set.
C8_LocationReaction ==
    LocationMovesWarehouse
    => /\ form.rec.warehouse_id = location_warehouse(form.pre.location_id)
       /\ form.rec.company_id = warehouse_company(form.rec.warehouse_id)
       /\ form.rec.location_id = form.pre.location_id

\* C8 amended: the request ends in the location's warehouse, at the location
\* that was set; its company is that warehouse's, unless the request is a
\* stock.request with an order, whose company is left as it was; nothing else
\* has changed.
C8_LocationReactionUnlessOrder ==
    LocationMovesWarehouse
    => /\ form.rec.warehouse_id = location_warehouse(form.pre.location_id)
       /\ form.rec.location_id = form.pre.location_id
       /\ form.rec.company_id =
            IF OrderDerived(form.pre) THEN form.pre.company_id
            ELSE warehouse_company(form.rec.warehouse_id)
       /\ form.rec = [form.pre EXCEPT !.warehouse_id = form.rec.warehouse_id,
                                      !.company_id = form.rec.company_id]

\* C8 witness.  The location is set to B1, which is not the stock location of its
\* warehouse WH1, on a request of WH2 and C2: the request moves to WH1 and C1
\* and stays at B1.
C8_Witness ==
    /\ LocationMovesWarehouse
    /\ ~OrderDerived(form.pre)
    /\ form.pre.location_id = "B1"
    /\ form.pre.warehouse_id = "WH2"
    /\ form.pre.company_id = "C2"
    /\ form.rec.warehouse_id = "WH1"
    /\ form.rec.company_id = "C1"
    /\ form.rec.location_id = "B1"

\* C9: after the company was set to a company C, with no warehouse or one of
\* another company, and the reaction has run, the company is still C and the
\* warehouse is set and belongs to C.
C9_CompanyReaction ==
    ( /\ form.pc = "changed"
      /\ form.field = "company_id"
      /\ form.pre.company_id # NONE
      /\ \/ form.pre.warehouse_id = NONE
         \/ warehouse_company(form.pre.warehouse_id) # form.pre.company_id )
    => /\ form.rec.company_id = form.pre.company_id
       /\ form.rec.warehouse_id # NONE
       /\ warehouse_company(form.rec.warehouse_id) = form.rec.company_id

====
